---- MODULE Spec2Model ----
(***************************************************************************)
(* Model of src/src/app/graph/GraphicalInterface.js: the Graphic id        *)
(* counters and point store, and the ModCurveGraph click handler that      *)
(* keeps two selection slots and presents the group-law sum.               *)
(*                                                                         *)
(* Conventions.                                                            *)
(*  - Coordinates on the rendering surface are kept in HALVES (the value   *)
(*    h stands for the number h/2), because the infinity box is +/-0.5     *)
(*    wide and a marker may sit on a half-integer position.  Rounded click *)
(*    coordinates and slot contents are plain integers.                    *)
(*  - JavaScript arrays are 0-based, TLA+ sequences 1-based:               *)
(*    selectedPoints[k+1] models the JS selectedPoints[k] (slot S_k), and  *)
(*    listCoordPoints[i] models the JS listCoordPoints[i-1], which         *)
(*    displayPoints draws under point id i on a fresh instance.            *)
(***************************************************************************)
EXTENDS Integers, Sequences, FiniteSets, TLC

VARIABLES
    pointId,           \* Graphic.pointId
    lineId,            \* Graphic.lineId
    segmentId,         \* Graphic.segmentId
    params,            \* surface parameters x_{i}, y_{i}: id -> <<x, y>> in halves, <<>> when absent
    listCoordPoints,   \* ModCurveGraph.listCoordPoints (last entry: the infinity marker)
    selectedPoints,    \* ModCurveGraph.selectedPoints, slots S0 and S1
    idSelectedPoints,  \* ModCurveGraph.idSelectedPoints
    listeners,         \* click listeners registered by addClickPoints, with their closure state
    last               \* what the latest operation did (its outcome and the calls it issued)

vars == <<pointId, lineId, segmentId, params, listCoordPoints, selectedPoints,
          idSelectedPoints, listeners, last>>

----------------------------------------------------------------------------
(* Bounds of the model.                                                     *)

MaxPointId == 3
MaxLineId == 2
MaxSegmentId == 2
MaxLen == 3
MaxListeners == 1
MaxInstalls == 2

----------------------------------------------------------------------------
(* JavaScript values held in the selection slots.                           *)

Undefined == [t |-> "undefined", v |-> 0]
Null == [t |-> "null", v |-> 0]
Num(n) == [t |-> "number", v |-> n]

\* x == undefined (loose equality): true of undefined and of null
LooseEqUndefined(j) == j.t \in {"undefined", "null"}

EmptyPair == <<Undefined, Undefined>>
InfinityPair == <<Null, Null>>

----------------------------------------------------------------------------
(* The curve collaborator: y^2 = x^3 + x + 1 over F_3, whose points are     *)
(* (0,1), (0,2), (1,0) and the point at infinity (a cyclic group of order   *)
(* four generated by (0,1)).                                                *)

Curve == [p |-> 3, a |-> 1, b |-> 1]

Infinity == [inf |-> TRUE, x |-> 0, y |-> 0]
Finite(x, y) == [inf |-> FALSE, x |-> x, y |-> y]

\* makePoint(x?, y?): an absent coordinate denotes the point at infinity
newPoint(jx, jy) ==
    IF jx.t # "number" \/ jy.t # "number" THEN Infinity ELSE Finite(jx.v, jy.v)

isInfinity(P) == P.inf

equalPoints(P, Q) == (P.inf /\ Q.inf) \/ (~P.inf /\ ~Q.inf /\ P.x = Q.x /\ P.y = Q.y)

InvMod(v) == CHOOSE w \in 1..(Curve.p - 1) : (v * w) % Curve.p = 1

addPoints(P, Q) ==
    IF P.inf THEN Q
    ELSE IF Q.inf THEN P
    ELSE IF P.x = Q.x /\ (P.y + Q.y) % Curve.p = 0 THEN Infinity
    ELSE LET lam == IF P.x = Q.x
                    THEN ((3 * P.x * P.x + Curve.a) * InvMod((2 * P.y) % Curve.p)) % Curve.p
                    ELSE ((Q.y - P.y) * InvMod((Q.x - P.x) % Curve.p)) % Curve.p
             x3 == (lam * lam - P.x - Q.x) % Curve.p
         IN Finite(x3, (lam * (P.x - x3) - P.y) % Curve.p)

\* coordinatesOf(point): the displayable coordinate, or the infinity tag
getCoord(P) == IF P.inf THEN InfinityPair ELSE <<Num(P.x), Num(P.y)>>

----------------------------------------------------------------------------
(* Positions the model draws from (in halves): the curve points (0,1) and   *)
(* (0,2), and a marker position (1, 2.5) above the grid, whose +/-0.5 box   *)
(* contains the integer position (1,2).  A registry may also end with a     *)
(* curve point, which puts the marker on a finite point.                    *)

Coords == {<<0, 2>>, <<0, 4>>, <<2, 5>>}

\* where a click can land after pixelsToMath (in halves): x in {0, 0.5}, y in {1, 1.5},
\* which Math.round takes to x in {0, 1} and y in {1, 2}
ClickXs == {0, 1}
ClickYs == {2, 3}

Absent == <<>>

----------------------------------------------------------------------------
(* Arguments handed to the construction methods, with their JS type.        *)

ArrayArg(c) == [kind |-> "array", val |-> c]
NotArray == [kind |-> "string", val |-> <<>>]
NumArg(n) == [kind |-> "number", val |-> n]
NotNumber == [kind |-> "string", val |-> 0]

PointArgs == {ArrayArg(<<0, 2>>), ArrayArg(<<0, 4>>), NotArray}
AxisArgs == {"X", "XY", "NONE", "Z"}
ValidAxes == {"X", "Y", "XY", "NONE"}
NumberArgs == {NumArg(1), NotNumber}
IdArgs == {NumArg(n) : n \in 1..(MaxPointId + 1)} \cup {NotNumber}
SegmentArgs == {ArrayArg(<<0, 2>>), NotArray}

\* the outcome record of an operation that is not a click: whether it raised, how
\* many calls it issued to the rendering surface, and the arguments it was given
Outcome(op, args, threw, surface) ==
    [op |-> op, args |-> args, threw |-> threw, surface |-> surface, runs |-> <<>>]

----------------------------------------------------------------------------
(* Graphic: point, line and segment construction.                           *)

\* a variant that counts the point before it validates its arguments
addDraggablePointCountsFirst(g, P, Axis, surfaceFails) ==
    LET id == g.pointId + 1
    IN IF P.kind # "array" \/ Axis \notin ValidAxes
       THEN [pointId |-> id, params |-> g.params, threw |-> TRUE, surface |-> 0]
       ELSE IF surfaceFails
       THEN [pointId |-> id, params |-> g.params, threw |-> TRUE, surface |-> 1]
       ELSE [pointId |-> id,
             params |-> [j \in DOMAIN g.params |-> IF j = id THEN P.val ELSE g.params[j]],
             threw |-> FALSE, surface |-> 1]

\* addDraggablePoint(P, Axis) on the Graphic state g = [pointId, params];
\* surfaceFails: calculator.setExpressions throws
addDraggablePoint(g, P, Axis, surfaceFails) ==
    IF P.kind # "array"
    THEN [pointId |-> g.pointId, params |-> g.params, threw |-> TRUE, surface |-> 0]
    ELSE IF Axis \notin ValidAxes
    THEN [pointId |-> g.pointId, params |-> g.params, threw |-> TRUE, surface |-> 0]
    ELSE LET id == g.pointId + 1
         IN IF surfaceFails
            THEN [pointId |-> id, params |-> g.params, threw |-> TRUE, surface |-> 1]
            ELSE [pointId |-> id,
                  params |-> [j \in DOMAIN g.params |-> IF j = id THEN P.val ELSE g.params[j]],
                  threw |-> FALSE, surface |-> 1]

\* addStaticPoint(P)
addStaticPoint(g, P, surfaceFails) == addDraggablePoint(g, P, "NONE", surfaceFails)

\* addLine(gradient, b) on the line counter
addLine(lid, gradient, b, surfaceFails) ==
    IF gradient.kind # "number" \/ b.kind # "number"
    THEN [lineId |-> lid, threw |-> TRUE, surface |-> 0]
    ELSE [lineId |-> lid + 1, threw |-> surfaceFails, surface |-> 1]

\* addLineBetweenTwoPoints(idP, idQ)
addLineBetweenTwoPoints(lid, pid, idP, idQ, surfaceFails) ==
    IF idP.kind # "number" \/ idQ.kind # "number"
    THEN [lineId |-> lid, threw |-> TRUE, surface |-> 0]
    ELSE IF idP.val > pid \/ idQ.val > pid
    THEN [lineId |-> lid, threw |-> TRUE, surface |-> 0]
    ELSE [lineId |-> lid + 1, threw |-> surfaceFails, surface |-> 1]

\* addSegment(coordinatesX, coordinatesY)
addSegment(sid, coordinatesX, coordinatesY, surfaceFails) ==
    IF coordinatesX.kind # "array" \/ coordinatesY.kind # "array"
    THEN [segmentId |-> sid, threw |-> TRUE, surface |-> 0]
    ELSE [segmentId |-> sid + 1, threw |-> surfaceFails, surface |-> 1]

ClickVars == <<listCoordPoints, selectedPoints, idSelectedPoints, listeners>>

AddDraggablePoint ==
    \E P \in PointArgs, Axis \in AxisArgs, surfaceFails \in BOOLEAN :
        LET r == addDraggablePoint([pointId |-> pointId, params |-> params], P, Axis, surfaceFails)
        IN /\ r.pointId <= MaxPointId
           /\ pointId' = r.pointId
           /\ params' = r.params
           /\ last' = Outcome("addDraggablePoint", <<P, Axis>>, r.threw, r.surface)
           /\ UNCHANGED <<lineId, segmentId, ClickVars>>

AddStaticPoint ==
    \E P \in PointArgs, surfaceFails \in BOOLEAN :
        LET r == addStaticPoint([pointId |-> pointId, params |-> params], P, surfaceFails)
        IN /\ r.pointId <= MaxPointId
           /\ pointId' = r.pointId
           /\ params' = r.params
           /\ last' = Outcome("addStaticPoint", <<P>>, r.threw, r.surface)
           /\ UNCHANGED <<lineId, segmentId, ClickVars>>

AddLine ==
    \E gradient \in NumberArgs, b \in NumberArgs, surfaceFails \in BOOLEAN :
        LET r == addLine(lineId, gradient, b, surfaceFails)
        IN /\ r.lineId <= MaxLineId
           /\ lineId' = r.lineId
           /\ last' = Outcome("addLine", <<gradient, b>>, r.threw, r.surface)
           /\ UNCHANGED <<pointId, segmentId, params, ClickVars>>

AddLineBetweenTwoPoints ==
    \E idP \in IdArgs, idQ \in IdArgs, surfaceFails \in BOOLEAN :
        LET r == addLineBetweenTwoPoints(lineId, pointId, idP, idQ, surfaceFails)
        IN /\ r.lineId <= MaxLineId
           /\ lineId' = r.lineId
           /\ last' = Outcome("addLineBetweenTwoPoints", <<idP, idQ>>, r.threw, r.surface)
           /\ UNCHANGED <<pointId, segmentId, params, ClickVars>>

AddSegment ==
    \E coordinatesX \in SegmentArgs, coordinatesY \in SegmentArgs, surfaceFails \in BOOLEAN :
        LET r == addSegment(segmentId, coordinatesX, coordinatesY, surfaceFails)
        IN /\ r.segmentId <= MaxSegmentId
           /\ segmentId' = r.segmentId
           /\ last' = Outcome("addSegment", <<coordinatesX, coordinatesY>>, r.threw, r.surface)
           /\ UNCHANGED <<pointId, lineId, params, ClickVars>>

\* setBlankState(): the counters restart and the surface loses every expression
SetBlankState ==
    /\ lineId' = 0
    /\ pointId' = 0
    /\ segmentId' = 0
    /\ params' = [j \in 1..MaxPointId |-> Absent]
    /\ last' = Outcome("setBlankState", <<>>, FALSE, 1)
    /\ UNCHANGED ClickVars

----------------------------------------------------------------------------
(* ModCurveGraph: registry population and display.                          *)

\* the curve view fills listCoordPoints in place, the infinity marker last, at
\* setup time: before anything is drawn and before the listener is added
PushPoint ==
    \E c \in Coords :
        /\ Len(listCoordPoints) < MaxLen
        /\ pointId = 0
        /\ listeners = <<>>
        /\ listCoordPoints' = Append(listCoordPoints, c)
        /\ last' = Outcome("pushPoint", <<>>, FALSE, 0)
        /\ UNCHANGED <<pointId, lineId, segmentId, params, selectedPoints,
                       idSelectedPoints, listeners>>

\* the forEach of displayPoints from entry i on; failAt = k: the k-th setExpressions throws
RECURSIVE DrawPoints(_, _, _)
DrawPoints(i, g, failAt) ==
    IF i > Len(listCoordPoints)
    THEN g
    ELSE LET r == addStaticPoint(g, ArrayArg(listCoordPoints[i]), failAt = i)
         IN IF r.threw
            THEN [r EXCEPT !.surface = g.surface + r.surface]
            ELSE DrawPoints(i + 1, [r EXCEPT !.surface = g.surface + r.surface], failAt)

\* displayPoints(): the points, then the label of the last one and the grid of the field
displayPoints(g, failAt) ==
    LET r == DrawPoints(1, g, failAt)
    IN IF r.threw THEN r ELSE [r EXCEPT !.surface = r.surface + 2 + Curve.p]

DisplayPoints ==
    \E failAt \in 0..Len(listCoordPoints) :
        LET r == displayPoints([pointId |-> pointId, params |-> params,
                                threw |-> FALSE, surface |-> 0], failAt)
        IN /\ r.pointId <= MaxPointId
           /\ pointId' = r.pointId
           /\ params' = r.params
           /\ last' = Outcome("displayPoints", <<>>, r.threw, r.surface)
           /\ UNCHANGED <<lineId, segmentId, ClickVars>>

----------------------------------------------------------------------------
(* ModCurveGraph.addClickPoints: the click listener.                        *)

\* Math.round on a value given in halves (a tie rounds up)
Round(h) == (h + 1) \div 2

\* whether calculator.model.expressionAnalysis holds x_{i} and y_{i}
HasParameter(i) == i \in DOMAIN params /\ params[i] # Absent

\* a variant that ignores the toggle and always fills S0
SelectFirstSlot(st, pair, id) ==
    [st EXCEPT !.sel[1] = pair, !.ids[1] = id, !.t = ~st.t]

\* a variant that forgets to record the source index
SelectKeepsId(st, pair, id) ==
    LET k == IF st.t THEN 2 ELSE 1
    IN [st EXCEPT !.sel[k] = pair, !.t = ~st.t]

\* a variant that reads the toggle the other way round: S1 first
SelectOtherSlot(st, pair, id) ==
    LET k == IF st.t THEN 1 ELSE 2
    IN [st EXCEPT !.sel[k] = pair, !.ids[k] = id, !.t = ~st.t]

\* a variant that fills the slot and leaves the toggle where it was
SelectKeepsToggle(st, pair, id) ==
    LET k == IF st.t THEN 2 ELSE 1
    IN [st EXCEPT !.sel[k] = pair, !.ids[k] = id]

\* the two assignments and the toggle of a match: slot S_t gets (pair, id)
Select(st, pair, id) ==
    LET k == IF st.t THEN 2 ELSE 1
    IN [st EXCEPT !.sel[k] = pair, !.ids[k] = id, !.t = ~st.t]

\* a variant that compares the x coordinate alone
MatchesPointXOnly(x, y, i) == 2 * x = params[i][1]

\* x_arrondi == x_{i} && y_arrondi == y_{i}
MatchesPoint(x, y, i) == 2 * x = params[i][1] /\ 2 * y = params[i][2]

\* the +/-0.5 box (inclusive) around the point drawn under id i
InBox(x, y, i) ==
    /\ params[i][1] - 1 <= 2 * x
    /\ 2 * x <= params[i][1] + 1
    /\ params[i][2] - 1 <= 2 * y
    /\ 2 * y <= params[i][2] + 1

\* for (i = 1; i < listPoints.length; i++) { if (match) { select; toggle } }
RECURSIVE Scan(_, _, _, _)
Scan(i, x, y, st) ==
    IF ~(i < Len(listCoordPoints))
    THEN st
    ELSE IF ~HasParameter(i)
    THEN [st EXCEPT !.threw = TRUE]
    ELSE IF MatchesPoint(x, y, i)
    THEN Scan(i + 1, x, y, [Select(st, <<Num(x), Num(y)>>, i) EXCEPT !.hits = Append(st.hits, i)])
    ELSE Scan(i + 1, x, y, st)

\* the infinity test on the point drawn under id listPoints.length
InfinityCheck(x, y, st) ==
    LET n == Len(listCoordPoints)
    IN IF ~HasParameter(n)
       THEN [st EXCEPT !.threw = TRUE]
       ELSE IF InBox(x, y, n)
       THEN [Select(st, InfinityPair, n) EXCEPT !.box = TRUE]
       ELSE st

\* a variant that aborts whenever S1 holds no number, infinity included
GateAbortsOnEmpty(sel, point2) == LooseEqUndefined(sel[2][1])

\* (selectedPoints[1][0] == undefined) && (!point2.isInfinity())
GateAborts(sel, point2) == LooseEqUndefined(sel[2][1]) /\ ~isInfinity(point2)

\* a variant that draws the infinity marker for point1 alone
PlanMarksFirstInput(sel) ==
    LET point1 == newPoint(sel[1][1], sel[1][2])
        point2 == newPoint(sel[2][1], sel[2][2])
    IN IF GateAborts(sel, point2)
       THEN <<"newPoint", "newPoint">>
       ELSE <<"newPoint", "newPoint", "displayModulo", "equalPoints", "addPoints",
              "getCoord", "displayAddPoint">>
            \o (IF isInfinity(point1) THEN <<"displayInfinity">> ELSE <<>>)

\* the calls made after the resolution, in order, when none of them throws
Plan(sel) ==
    LET point1 == newPoint(sel[1][1], sel[1][2])
        point2 == newPoint(sel[2][1], sel[2][2])
    IN IF GateAborts(sel, point2)
       THEN <<"newPoint", "newPoint">>
       ELSE <<"newPoint", "newPoint", "displayModulo", "equalPoints", "addPoints",
              "getCoord", "displayAddPoint">>
            \o (IF isInfinity(point1) \/ isInfinity(point2)
                THEN <<"displayInfinity">> ELSE <<>>)

\* the calls that completed when the call named fault throws
Completed(plan, fault) ==
    IF \E i \in 1..Len(plan) : plan[i] = fault
    THEN SubSeq(plan, 1, (CHOOSE i \in 1..Len(plan) :
                            plan[i] = fault /\ \A j \in 1..(i - 1) : plan[j] # fault) - 1)
    ELSE plan

Faults == {"none", "pixelsToMath", "addPoints", "displayAddPoint"}

DrawCalls == {"displayModulo", "displayAddPoint", "displayInfinity"}

Called(calls, name) == \E i \in 1..Len(calls) : calls[i] = name

\* a variant that never reports a doubling
IsTheSamePointNever(point1, point2) == FALSE

\* isTheSamePoint = that.equalPoints(point1, point2)
IsTheSamePoint(point1, point2) == equalPoints(point1, point2)

\* a variant that adds point1 to itself
AddiPointDoubling(point1, point2) == getCoord(addPoints(point1, point1))

\* addiPoint = that.getCoord(that.addPoints(point1, point2))
AddiPoint(point1, point2) == getCoord(addPoints(point1, point2))

\* build the points, gate, compute, present
Present(sel, fault) ==
    LET point1 == newPoint(sel[1][1], sel[1][2])
        point2 == newPoint(sel[2][1], sel[2][2])
        plan == Plan(sel)
        calls == Completed(plan, fault)
    IN [threw |-> Len(calls) < Len(plan),
        gate |-> IF Len(calls) < 2 THEN "none"
                 ELSE IF GateAborts(sel, point2) THEN "abort" ELSE "pass",
        calls |-> calls,
        presented |-> IF Called(calls, "displayAddPoint")
                      THEN <<[coord |-> AddiPoint(point1, point2),
                              same |-> IsTheSamePoint(point1, point2)]>>
                      ELSE <<>>]

\* a variant that logs and continues: the listener stays
StillInstalledAlways(threw) == TRUE

\* catch (error) { removeEventListener }: whether the listener is still installed
StillInstalled(threw) == ~threw

\* a variant whose catch puts back what the click found
CommittedUnlessThrown(before, after, threw) == IF threw THEN before ELSE after

\* the catch removes the listener and restores nothing: what the try body assigned stays
Committed(before, after, threw) == after

\* one run of the click callback of listener k, on the event position (rx, ry) in halves
ClickHandler(sel, ids, lst, k, rx, ry, fault) ==
    LET st0 == [sel |-> sel, ids |-> ids, t |-> lst[k].isSecondPoint,
                hits |-> <<>>, box |-> FALSE, threw |-> fault = "pixelsToMath"]
        x == Round(rx)
        y == Round(ry)
        st1 == IF st0.threw THEN st0 ELSE Scan(1, x, y, st0)
        st2 == IF st1.threw THEN st1 ELSE InfinityCheck(x, y, st1)
        pr == IF st2.threw
              THEN [threw |-> TRUE, gate |-> "none", calls |-> <<>>, presented |-> <<>>]
              ELSE Present(st2.sel, fault)
    IN [sel |-> Committed(sel, st2.sel, pr.threw),
        ids |-> Committed(ids, st2.ids, pr.threw),
        lst |-> [lst EXCEPT ![k] = [isSecondPoint |-> Committed(lst[k].isSecondPoint,
                                                                st2.t, pr.threw),
                                    installed |-> StillInstalled(pr.threw)]],
        run |-> [lis |-> k, t0 |-> lst[k].isSecondPoint, hits |-> st2.hits, box |-> st2.box,
                 threw |-> pr.threw,
                 thrownBy |-> IF st0.threw THEN "pixelsToMath"
                              ELSE IF st2.threw THEN "getValueOfParameter"
                              ELSE IF pr.threw THEN fault ELSE "none",
                 gate |-> pr.gate, calls |-> pr.calls,
                 presented |-> pr.presented]]

\* the event reaches the installed listeners in the order they were added
RECURSIVE Dispatch(_, _, _, _, _)
Dispatch(k, acc, rx, ry, fault) ==
    IF k > Len(acc.lst)
    THEN acc
    ELSE IF ~acc.lst[k].installed
    THEN Dispatch(k + 1, acc, rx, ry, fault)
    ELSE LET r == ClickHandler(acc.sel, acc.ids, acc.lst, k, rx, ry, fault)
         IN Dispatch(k + 1, [sel |-> r.sel, ids |-> r.ids, lst |-> r.lst,
                             runs |-> Append(acc.runs, r.run)], rx, ry, fault)

RECURSIVE CountDraws(_)
CountDraws(calls) ==
    IF calls = <<>> THEN 0
    ELSE (IF Head(calls) \in DrawCalls THEN 1 ELSE 0) + CountDraws(Tail(calls))

RECURSIVE SumDraws(_)
SumDraws(runs) ==
    IF runs = <<>> THEN 0 ELSE CountDraws(Head(runs).calls) + SumDraws(Tail(runs))

\* addClickPoints(): a new callback with its own isSecondPoint = false
AddClickPoints ==
    /\ Len(listeners) < MaxListeners
    /\ listeners' = Append(listeners, [isSecondPoint |-> FALSE, installed |-> TRUE])
    /\ last' = Outcome("addClickPoints", <<>>, FALSE, 1)
    /\ UNCHANGED <<pointId, lineId, segmentId, params, listCoordPoints, selectedPoints,
                   idSelectedPoints>>

\* a click on the element
Click ==
    \E rx \in ClickXs, ry \in ClickYs, fault \in Faults :
        LET r == Dispatch(1, [sel |-> selectedPoints, ids |-> idSelectedPoints,
                              lst |-> listeners, runs |-> <<>>], rx, ry, fault)
        IN /\ selectedPoints' = r.sel
           /\ idSelectedPoints' = r.ids
           /\ listeners' = r.lst
           /\ last' = [op |-> "click", args |-> <<rx, ry>>, threw |-> FALSE,
                       surface |-> SumDraws(r.runs), runs |-> r.runs]
           /\ UNCHANGED <<pointId, lineId, segmentId, params, listCoordPoints>>

----------------------------------------------------------------------------
(* Specifications.                                                          *)

Init ==
    /\ pointId = 0
    /\ lineId = 0
    /\ segmentId = 0
    /\ params = [j \in 1..MaxPointId |-> Absent]
    /\ listCoordPoints = <<>>
    /\ selectedPoints = <<EmptyPair, EmptyPair>>
    /\ idSelectedPoints = <<0, 0>>
    /\ listeners = <<>>
    /\ last = Outcome("constructor", <<>>, FALSE, 1)

\* the curve view: population, display, interaction
Next ==
    \/ PushPoint
    \/ DisplayPoints
    \/ AddClickPoints
    \/ Click

Spec == Init /\ [][Next]_vars

\* the construction methods of Graphic
NextGraphic ==
    \/ AddDraggablePoint
    \/ AddStaticPoint
    \/ AddLine
    \/ AddLineBetweenTwoPoints
    \/ AddSegment
    \/ SetBlankState

SpecGraphic == Init /\ [][NextGraphic]_vars

\* the setup of a curve view: population, other point creations, resets, display
NextSetup ==
    \/ PushPoint
    \/ AddStaticPoint
    \/ SetBlankState
    \/ DisplayPoints

SpecSetup == Init /\ [][NextSetup]_vars

\* addClickPoints() called again on the same instance: one more callback on the
\* element, with an isSecondPoint of its own
AddClickPointsAgain ==
    /\ Len(listeners) < MaxInstalls
    /\ listeners' = Append(listeners, [isSecondPoint |-> FALSE, installed |-> TRUE])
    /\ last' = Outcome("addClickPoints", <<>>, FALSE, 1)
    /\ UNCHANGED <<pointId, lineId, segmentId, params, listCoordPoints, selectedPoints,
                   idSelectedPoints>>

\* a registry of the curve: (0,1), (0,2) and the marker at (1, 2.5)
SessionRegistry == <<<<0, 2>>, <<0, 4>>, <<2, 5>>>>

\* a new instance whose registry has been filled and drawn by displayPoints
InitSession ==
    /\ listCoordPoints = SessionRegistry
    /\ LET r == displayPoints([pointId |-> 0,
                               params |-> [j \in 1..MaxPointId |-> Absent],
                               threw |-> FALSE, surface |-> 0], 0)
       IN /\ pointId = r.pointId
          /\ params = r.params
          /\ last = Outcome("displayPoints", <<>>, r.threw, r.surface)
    /\ lineId = 0
    /\ segmentId = 0
    /\ selectedPoints = <<EmptyPair, EmptyPair>>
    /\ idSelectedPoints = <<0, 0>>
    /\ listeners = <<>>

\* the interaction on a drawn registry, addClickPoints being called any number of times
NextSession ==
    \/ AddClickPointsAgain
    \/ Click

SpecSession == InitSession /\ [][NextSession]_vars

----------------------------------------------------------------------------
(* Vocabulary of the properties.  The registry is what the handler looks    *)
(* up: the points drawn under the ids 1..n, and the infinity marker under   *)
(* id n+1 = Len(listCoordPoints).  These definitions restate the            *)
(* resolution from the event position and never read the handler's result.  *)

\* the nearest integer to h/2, a tie going up
Nearest(h) == CHOOSE z \in -1..3 : 2 * z - 1 <= h /\ h < 2 * z + 1

InfinityIndex == Len(listCoordPoints)

\* every registry entry, the marker included, is drawn
RegistryDrawn == InfinityIndex >= 1 /\ \A i \in 1..InfinityIndex : HasParameter(i)

\* the finite registry points whose coordinate is the rounded position of the click ev
FiniteMatches(ev) ==
    {i \in 1..(InfinityIndex - 1) :
        HasParameter(i) /\ params[i] = <<2 * Nearest(ev[1]), 2 * Nearest(ev[2])>>}

\* the rounded position of ev is inside the inclusive +/-0.5 box of the marker
InInfinityBox(ev) ==
    /\ HasParameter(InfinityIndex)
    /\ LET m == params[InfinityIndex]
           dx == 2 * Nearest(ev[1]) - m[1]
           dy == 2 * Nearest(ev[2]) - m[2]
       IN -1 <= dx /\ dx <= 1 /\ -1 <= dy /\ dy <= 1

RoundedPair(ev) == <<Num(Nearest(ev[1])), Num(Nearest(ev[2]))>>

Installed == {k \in DOMAIN listeners : listeners[k].installed}

\* slot S_t in the 1-based numbering of the model
SlotOf(t) == IF t THEN 2 ELSE 1
OtherSlot(t) == IF t THEN 1 ELSE 2

\* this step is a click that one installed listener handled, its coordinate
\* conversion having succeeded
HandledClick(k) ==
    /\ last'.op = "click"
    /\ Installed = {k}
    /\ Len(last'.runs) = 1
    /\ last'.runs[1].thrownBy # "pixelsToMath"

\* ... and no step of the handler raised
CompletedClick(k) == HandledClick(k) /\ last'.runs[1].thrownBy = "none"

Min(S) == CHOOSE i \in S : \A j \in S : i <= j

----------------------------------------------------------------------------
(* C1: with the listener installed and its toggle at t, a click whose       *)
(* rounded coordinate is the coordinate of exactly one finite registry      *)
(* point i, outside the infinity box, writes (coordinate, i) into slot S_t, *)
(* leaves the other slot as it was and flips the toggle.                    *)

C1_Step ==
    \A k \in DOMAIN listeners : \A i \in 1..MaxLen :
        ( /\ HandledClick(k)
          /\ RegistryDrawn
          /\ FiniteMatches(last'.args) = {i}
          /\ ~InInfinityBox(last'.args) )
        => LET t == listeners[k].isSecondPoint
           IN /\ selectedPoints'[SlotOf(t)] = RoundedPair(last'.args)
              /\ idSelectedPoints'[SlotOf(t)] = i
              /\ selectedPoints'[OtherSlot(t)] = selectedPoints[OtherSlot(t)]
              /\ idSelectedPoints'[OtherSlot(t)] = idSelectedPoints[OtherSlot(t)]
              /\ listeners'[k].isSecondPoint = ~t

C1_ExactMatchSelects == [][C1_Step]_vars

\* a click on the only match has filled S1 with it, S0 holding another selection
C1_Witness ==
    /\ last.op = "click"
    /\ Len(last.runs) = 1
    /\ last.runs[1].thrownBy = "none"
    /\ last.runs[1].t0
    /\ RegistryDrawn
    /\ Cardinality(FiniteMatches(last.args)) = 1
    /\ ~InInfinityBox(last.args)
    /\ selectedPoints[2] = RoundedPair(last.args)
    /\ idSelectedPoints[2] \in FiniteMatches(last.args)
    /\ idSelectedPoints[1] # 0

----------------------------------------------------------------------------
(* C2: a click whose rounded coordinate is the coordinate of no finite      *)
(* registry point and is outside the infinity box leaves both slots, both   *)
(* source indices and every toggle unchanged.                               *)

C2_Step ==
    ( /\ last'.op = "click"
      /\ FiniteMatches(last'.args) = {}
      /\ ~InInfinityBox(last'.args) )
    => /\ selectedPoints' = selectedPoints
       /\ idSelectedPoints' = idSelectedPoints
       /\ \A k \in DOMAIN listeners :
              listeners'[k].isSecondPoint = listeners[k].isSecondPoint

C2_MissChangesNothing == [][C2_Step]_vars

\* a handled miss on a drawn registry, after a first selection
C2_Witness ==
    /\ last.op = "click"
    /\ Len(last.runs) = 1
    /\ last.runs[1].thrownBy = "none"
    /\ RegistryDrawn
    /\ InfinityIndex >= 2
    /\ FiniteMatches(last.args) = {}
    /\ ~InInfinityBox(last.args)
    /\ idSelectedPoints[1] # 0
    /\ listeners[last.runs[1].lis].isSecondPoint

----------------------------------------------------------------------------
(* C3: with the toggle at t, a click whose rounded coordinate is inside the *)
(* infinity box leaves slot S_t holding infinity with source index n+1,     *)
(* also when a finite registry point has that coordinate.                   *)

C3_Step ==
    \A k \in DOMAIN listeners :
        ( /\ CompletedClick(k)
          /\ RegistryDrawn
          /\ InInfinityBox(last'.args) )
        => LET t == listeners[k].isSecondPoint
           IN /\ selectedPoints'[SlotOf(t)] = InfinityPair
              /\ idSelectedPoints'[SlotOf(t)] = InfinityIndex

C3_InfinityTakesCurrentSlot == [][C3_Step]_vars

----------------------------------------------------------------------------
(* State-level vocabulary for the gate, the group law and the presenter.    *)

\* the latest operation was a click that one listener handled to the end
OneCompletedRun ==
    /\ last.op = "click"
    /\ Len(last.runs) = 1
    /\ last.runs[1].thrownBy = "none"

IsFinitePair(pair) == pair[1].t = "number" /\ pair[2].t = "number"

\* the curve point a finite slot stands for
PointOf(pair) == Finite(pair[1].v, pair[2].v)

FiniteIds == 1..(InfinityIndex - 1)

NoDrawCall(run) == \A i \in 1..Len(run.calls) : run.calls[i] \notin DrawCalls

----------------------------------------------------------------------------
(* C4: from the initial state, after the click that selects one finite      *)
(* point into S0 while S1 is still empty, the gate rejects: add is not      *)
(* invoked and no presenter call is issued on that click.                   *)

C4_LoneSelectionGated ==
    ( /\ OneCompletedRun
      /\ RegistryDrawn
      /\ ~last.runs[1].t0
      /\ FiniteMatches(last.args) = {idSelectedPoints[1]}
      /\ ~InInfinityBox(last.args)
      /\ selectedPoints[2] = EmptyPair
      /\ idSelectedPoints[2] = 0 )
    => /\ last.runs[1].gate = "abort"
       /\ ~Called(last.runs[1].calls, "addPoints")
       /\ NoDrawCall(last.runs[1])

----------------------------------------------------------------------------
(* C5: when one finite point P is selected in S0 and S1 is empty, and the   *)
(* point constructor builds the point at infinity from absent coordinates,  *)
(* the gate passes and the click presents a sum whose coordinate is P's     *)
(* own coordinate.                                                          *)

C5_LoneSelectionAddsIdentity ==
    ( /\ OneCompletedRun
      /\ idSelectedPoints[1] \in FiniteIds
      /\ IsFinitePair(selectedPoints[1])
      /\ selectedPoints[2] = EmptyPair
      /\ isInfinity(newPoint(Undefined, Undefined)) )
    => /\ last.runs[1].gate = "pass"
       /\ Called(last.runs[1].calls, "addPoints")
       /\ last.runs[1].presented = <<[coord |-> selectedPoints[1], same |-> FALSE]>>

\* the first matching click of a session has just put a finite point into S0
C5_Witness ==
    /\ OneCompletedRun
    /\ RegistryDrawn
    /\ ~last.runs[1].t0
    /\ FiniteMatches(last.args) = {idSelectedPoints[1]}
    /\ ~InInfinityBox(last.args)
    /\ selectedPoints[1] = RoundedPair(last.args)
    /\ selectedPoints[2] = EmptyPair
    /\ last.runs[1].presented # <<>>

----------------------------------------------------------------------------
(* C6: after matching clicks have put registry point P into S0 and then Q   *)
(* into S1, the presenter is called with the coordinate of add(P, Q) and    *)
(* with isTheSamePoint = equal(P, Q): true, with the sum add(P, P), when    *)
(* both slots hold the same index; false when P and Q are distinct points.  *)

\* the click just handled is the one that put a finite point into S1, S0 holding one
SecondSelection ==
    /\ OneCompletedRun
    /\ RegistryDrawn
    /\ last.runs[1].t0
    /\ FiniteMatches(last.args) = {idSelectedPoints[2]}
    /\ ~InInfinityBox(last.args)
    /\ idSelectedPoints[1] \in FiniteIds
    /\ IsFinitePair(selectedPoints[1])

C6_SumOfBothSlots ==
    SecondSelection =>
        LET P == PointOf(selectedPoints[1])
            Q == PointOf(selectedPoints[2])
            shown == last.runs[1].presented
        IN /\ Len(shown) = 1
           /\ shown[1].coord = getCoord(addPoints(P, Q))
           /\ shown[1].same = equalPoints(P, Q)
           /\ (idSelectedPoints[1] = idSelectedPoints[2]
                 => shown[1].same /\ shown[1].coord = getCoord(addPoints(P, P)))
           /\ (selectedPoints[1] # selectedPoints[2] => ~shown[1].same)
           \* on the curve: (0,1) + (0,1) = (1,0), (0,2) + (0,2) = (1,0), (0,1) + (0,2) = O
           /\ (P = Q => shown[1].coord = <<Num(1), Num(0)>>)
           /\ (P # Q => shown[1].coord = InfinityPair)

\* two distinct finite points are held, the second one just selected
C6_Witness ==
    /\ SecondSelection
    /\ selectedPoints[1] # selectedPoints[2]
    /\ last.runs[1].presented = <<[coord |-> InfinityPair, same |-> FALSE]>>

----------------------------------------------------------------------------
(* C7: when a step of the click handler raises, the exception stays inside  *)
(* the handler and the listener is removed; a removed listener is never     *)
(* installed again nor run again, so that a later click, with no listener   *)
(* left, changes neither slot nor toggle and issues no call.                *)

C7_Step ==
    /\ \A k \in DOMAIN listeners :
           ~listeners[k].installed
               => k \in DOMAIN listeners' /\ listeners'[k] = listeners[k]
    /\ last'.op = "click"
       => /\ ~last'.threw
          /\ \A j \in 1..Len(last'.runs) :
                 /\ last'.runs[j].lis \in Installed
                 /\ last'.runs[j].threw => ~listeners'[last'.runs[j].lis].installed
          /\ Installed = {}
               => /\ selectedPoints' = selectedPoints
                  /\ idSelectedPoints' = idSelectedPoints
                  /\ listeners' = listeners
                  /\ last'.runs = <<>>
                  /\ last'.surface = 0

C7_RemovedForGood == [][C7_Step]_vars

\* a click on a registry point that finds the listener removed
C7_Witness ==
    /\ last.op = "click"
    /\ last.runs = <<>>
    /\ listeners # <<>>
    /\ Installed = {}
    /\ RegistryDrawn
    /\ FiniteMatches(last.args) # {}
    /\ idSelectedPoints[1] \in FiniteMatches(last.args)

----------------------------------------------------------------------------
(* C8 as stated: a click that matches neither a finite registry point nor   *)
(* the infinity box raises nothing and causes no group-law computation and  *)
(* no presenter call.                                                       *)

\* a handled click on a drawn registry that resolves to nothing
HandledMiss ==
    /\ last.op = "click"
    /\ Len(last.runs) >= 1
    /\ \A j \in 1..Len(last.runs) : last.runs[j].thrownBy \notin Faults \ {"none"}
    /\ RegistryDrawn
    /\ FiniteMatches(last.args) = {}
    /\ ~InInfinityBox(last.args)

C8_MissIgnored ==
    HandledMiss =>
        /\ ~last.threw
        /\ \A j \in 1..Len(last.runs) :
               /\ ~last.runs[j].threw
               /\ ~Called(last.runs[j].calls, "addPoints")
               /\ NoDrawCall(last.runs[j])

(* C8 as amended: such a click raises nothing, but it is not ignored: the   *)
(* handler still builds both points and evaluates the gate on the slots as  *)
(* they are, the gate passes whenever S1 holds a finite point, and when the *)
(* gate passes the modulus annotation is drawn, add is invoked and the sum  *)
(* of the current slots is presented.                                       *)

C8_MissStillPresents ==
    HandledMiss =>
        /\ ~last.threw
        /\ \A j \in 1..Len(last.runs) :
               LET run == last.runs[j]
                   point1 == newPoint(selectedPoints[1][1], selectedPoints[1][2])
                   point2 == newPoint(selectedPoints[2][1], selectedPoints[2][2])
               IN /\ ~run.threw
                  /\ run.hits = <<>> /\ ~run.box
                  /\ run.gate \in {"abort", "pass"}
                  /\ IsFinitePair(selectedPoints[2]) => run.gate = "pass"
                  /\ run.gate = "abort"
                       => ~Called(run.calls, "addPoints") /\ NoDrawCall(run)
                  /\ run.gate = "pass"
                       => /\ Called(run.calls, "displayModulo")
                          /\ Called(run.calls, "addPoints")
                          /\ run.presented = <<[coord |-> getCoord(addPoints(point1, point2)),
                                                same |-> equalPoints(point1, point2)]>>

\* a miss after (0,1) was selected into both slots: the doubling is presented again
C8_Witness ==
    /\ HandledMiss
    /\ Len(last.runs) = 1
    /\ selectedPoints[1] = <<Num(0), Num(1)>>
    /\ selectedPoints[2] = <<Num(0), Num(1)>>
    /\ last.runs[1].presented = <<[coord |-> <<Num(1), Num(0)>>, same |-> TRUE]>>

----------------------------------------------------------------------------
(* C9: a construction call with malformed arguments raises, leaves pointId, *)
(* lineId and segmentId unchanged and issues no call to the surface:        *)
(* addDraggablePoint with a non-array P or an Axis outside X, Y, XY, NONE;  *)
(* addLine with a non-number gradient or b; addLineBetweenTwoPoints with a  *)
(* non-number id or an id above pointId; addSegment with a non-array.       *)

Malformed ==
    \/ /\ last'.op = "addDraggablePoint"
       /\ last'.args[1].kind # "array" \/ last'.args[2] \notin ValidAxes
    \/ /\ last'.op = "addLine"
       /\ last'.args[1].kind # "number" \/ last'.args[2].kind # "number"
    \/ /\ last'.op = "addLineBetweenTwoPoints"
       /\ \E a \in 1..2 : last'.args[a].kind # "number" \/ last'.args[a].val > pointId
    \/ /\ last'.op = "addSegment"
       /\ last'.args[1].kind # "array" \/ last'.args[2].kind # "array"

C9_Step ==
    Malformed => /\ last'.threw
                 /\ last'.surface = 0
                 /\ pointId' = pointId
                 /\ lineId' = lineId
                 /\ segmentId' = segmentId

C9_MalformedFailsClean == [][C9_Step]_vars

\* addDraggablePoint refused a bad Axis after points and lines had been created
C9_Witness ==
    /\ last.op = "addDraggablePoint"
    /\ last.args[1].kind = "array"
    /\ last.args[2] \notin ValidAxes
    /\ last.threw
    /\ last.surface = 0
    /\ pointId = 2
    /\ lineId = 1

----------------------------------------------------------------------------
(* C10: when several finite registry entries have the clicked coordinate,   *)
(* one click records only the first of them, in slot S_t, writes no other   *)
(* slot and flips the toggle once.                                          *)

C10_Step ==
    \A k \in DOMAIN listeners :
        ( /\ CompletedClick(k)
          /\ RegistryDrawn
          /\ Cardinality(FiniteMatches(last'.args)) >= 2
          /\ ~InInfinityBox(last'.args) )
        => LET t == listeners[k].isSecondPoint
           IN /\ selectedPoints'[SlotOf(t)] = RoundedPair(last'.args)
              /\ idSelectedPoints'[SlotOf(t)] = Min(FiniteMatches(last'.args))
              /\ selectedPoints'[OtherSlot(t)] = selectedPoints[OtherSlot(t)]
              /\ idSelectedPoints'[OtherSlot(t)] = idSelectedPoints[OtherSlot(t)]
              /\ listeners'[k].isSecondPoint = ~t

C10_FirstMatchOnly == [][C10_Step]_vars

----------------------------------------------------------------------------
(* C11: a listener's toggle starts at 0 when addClickPoints installs it,    *)
(* flips on every click that resolves to exactly one match (a finite        *)
(* registry point or the infinity box) and that the listener handles, and   *)
(* changes on no other step: not on a miss, not on an operation that is not *)
(* a click.  A click with exactly one match writes slot S_t for the toggle  *)
(* t it found, so the k-th matching click of a listener writes S0 when k is *)
(* odd and S1 when k is even, whatever misses lie in between.               *)

\* how many matches the click ev resolves to
MatchCount(ev) == Cardinality(FiniteMatches(ev)) + (IF InInfinityBox(ev) THEN 1 ELSE 0)

\* what a click with exactly one match selects
MatchedPair(ev) == IF InInfinityBox(ev) THEN InfinityPair ELSE RoundedPair(ev)
MatchedId(ev) == IF InInfinityBox(ev) THEN InfinityIndex ELSE Min(FiniteMatches(ev))

C11_Step ==
    /\ \A k \in DOMAIN listeners' \ DOMAIN listeners : ~listeners'[k].isSecondPoint
    /\ last'.op # "click"
         => \A k \in DOMAIN listeners :
                listeners'[k].isSecondPoint = listeners[k].isSecondPoint
    /\ \A k \in DOMAIN listeners :
           (HandledClick(k) /\ RegistryDrawn /\ MatchCount(last'.args) <= 1)
           => LET t == listeners[k].isSecondPoint
              IN IF MatchCount(last'.args) = 1
                 THEN /\ listeners'[k].isSecondPoint = ~t
                      /\ selectedPoints'[SlotOf(t)] = MatchedPair(last'.args)
                      /\ idSelectedPoints'[SlotOf(t)] = MatchedId(last'.args)
                      /\ selectedPoints'[OtherSlot(t)] = selectedPoints[OtherSlot(t)]
                 ELSE /\ listeners'[k].isSecondPoint = t
                      /\ selectedPoints' = selectedPoints

C11_ToggleParity == [][C11_Step]_vars

\* a miss has just left the toggle at 1 between a first match, held in S0, and the
\* second one, which is still to come and will fill S1
C11_Witness ==
    /\ OneCompletedRun
    /\ RegistryDrawn
    /\ MatchCount(last.args) = 0
    /\ last.runs[1].t0
    /\ listeners[last.runs[1].lis].isSecondPoint
    /\ listeners[last.runs[1].lis].installed
    /\ idSelectedPoints[1] # 0
    /\ idSelectedPoints[2] = 0

----------------------------------------------------------------------------
(* C12: within one click the presenter comes after the group law: every     *)
(* presenter call the handler issues, the modulus annotation included, is   *)
(* preceded by the call of add, and add is not called on a click where the  *)
(* gate aborts.                                                             *)

C12_PresentAfterAdd ==
    last.op = "click" =>
        \A j \in 1..Len(last.runs) :
            LET calls == last.runs[j].calls
            IN /\ \A i \in 1..Len(calls) :
                      calls[i] \in DrawCalls
                          => \E h \in 1..(i - 1) : calls[h] = "addPoints"
               /\ last.runs[j].gate = "abort" => ~Called(calls, "addPoints")

----------------------------------------------------------------------------
(* C13: on a click where the gate passes, the infinity marker is drawn      *)
(* exactly when S0 or S1 stands for the point at infinity, a slot holding   *)
(* the infinity pair or never written standing for it; on a click where the *)
(* gate aborts the marker is not drawn.                                     *)

\* the slot is built as the point at infinity: selected as infinity, or never written
StandsForInfinity(pair) == pair = InfinityPair \/ pair = EmptyPair

C13_InfinityMarker ==
    OneCompletedRun =>
        LET run == last.runs[1]
        IN /\ run.gate \in {"pass", "abort"}
           /\ run.gate = "pass"
                => ( Called(run.calls, "displayInfinity")
                     <=> ( StandsForInfinity(selectedPoints[1])
                           \/ StandsForInfinity(selectedPoints[2]) ) )
           /\ run.gate = "abort" => ~Called(run.calls, "displayInfinity")
           /\ ( IsFinitePair(selectedPoints[1]) /\ IsFinitePair(selectedPoints[2]) )
                => ~Called(run.calls, "displayInfinity")

\* infinity has just been selected into S1 next to a finite point in S0: the marker is drawn
C13_Witness ==
    /\ OneCompletedRun
    /\ RegistryDrawn
    /\ last.runs[1].t0
    /\ last.runs[1].box
    /\ last.runs[1].hits = <<>>
    /\ IsFinitePair(selectedPoints[1])
    /\ selectedPoints[2] = InfinityPair
    /\ last.runs[1].gate = "pass"
    /\ Called(last.runs[1].calls, "displayInfinity")

----------------------------------------------------------------------------
(* C14: the slot update of a click is made before the gate, the group law   *)
(* and the presenter, and it is not undone: when one of those later steps   *)
(* raises on a click with exactly one match, the slot written and the       *)
(* toggle flip of that click are in the session state afterwards, and the   *)
(* listener is removed.                                                     *)

LaterSteps == {"addPoints", "displayAddPoint"}

C14_Step ==
    \A k \in DOMAIN listeners :
        ( /\ HandledClick(k)
          /\ RegistryDrawn
          /\ MatchCount(last'.args) = 1
          /\ last'.runs[1].thrownBy \in LaterSteps )
        => LET t == listeners[k].isSecondPoint
           IN /\ selectedPoints'[SlotOf(t)] = MatchedPair(last'.args)
              /\ idSelectedPoints'[SlotOf(t)] = MatchedId(last'.args)
              /\ listeners'[k].isSecondPoint = ~t
              /\ ~listeners'[k].installed
              /\ ~last'.threw

C14_SlotKeptOnFailure == [][C14_Step]_vars

\* add raised on the click that selected (0,2) into S1: the slot holds it, the toggle
\* is back at 0, the listener is gone and nothing was presented
C14_Witness ==
    /\ last.op = "click"
    /\ Len(last.runs) = 1
    /\ last.runs[1].thrownBy = "addPoints"
    /\ last.runs[1].t0
    /\ last.runs[1].hits = <<2>>
    /\ ~last.runs[1].box
    /\ last.runs[1].presented = <<>>
    /\ selectedPoints[1] = <<Num(0), Num(1)>>
    /\ selectedPoints[2] = <<Num(0), Num(2)>>
    /\ idSelectedPoints = <<1, 2>>
    /\ ~listeners[1].isSecondPoint
    /\ ~listeners[1].installed

----------------------------------------------------------------------------
(* C15: in every reachable state S1 is non-empty only if S0 is non-empty:   *)
(* idSelectedPoints[1] # 0 implies idSelectedPoints[0] # 0, and S1 holds a  *)
(* selection only if S0 holds one.                                          *)

C15_SecondSlotAfterFirst ==
    /\ idSelectedPoints[2] # 0 => idSelectedPoints[1] # 0
    /\ selectedPoints[2] # EmptyPair => selectedPoints[1] # EmptyPair

\* both slots are filled, S1 by the second matching click
C15_Witness ==
    /\ OneCompletedRun
    /\ last.runs[1].t0
    /\ idSelectedPoints = <<2, 1>>
    /\ selectedPoints[1] # EmptyPair
    /\ selectedPoints[2] # EmptyPair

----------------------------------------------------------------------------
(* C16 as stated: in every reachable state each slot k agrees with its      *)
(* source index: the index is 0 exactly when the slot is the never-written  *)
(* pair, it is the infinity index n+1 exactly when the slot is the infinity *)
(* pair, and it is i in 1..n exactly when the slot equals the coordinate of *)
(* registry point i.                                                        *)

\* slot k holds the coordinate c (given in halves)
SlotHolds(k, c) ==
    /\ IsFinitePair(selectedPoints[k])
    /\ <<2 * selectedPoints[k][1].v, 2 * selectedPoints[k][2].v>> = c

C16_SlotIffIndex ==
    InfinityIndex >= 1 =>
        \A k \in 1..2 :
            /\ idSelectedPoints[k] = 0 <=> selectedPoints[k] = EmptyPair
            /\ idSelectedPoints[k] = InfinityIndex <=> selectedPoints[k] = InfinityPair
            /\ \A i \in FiniteIds :
                   idSelectedPoints[k] = i <=> SlotHolds(k, listCoordPoints[i])

(* C16 as amended: the index is 0 exactly when the slot was never written   *)
(* and n+1 exactly when the slot is the infinity pair; an index i in 1..n   *)
(* implies that the slot holds the coordinate under which point i is drawn, *)
(* and a slot holding a finite coordinate has an index in 1..n.  The        *)
(* converse holds only for a coordinate that a single drawn point has: of   *)
(* several points at one coordinate the slot names one.                     *)

C16_IndexImpliesSlot ==
    InfinityIndex >= 1 =>
        \A k \in 1..2 :
            /\ idSelectedPoints[k] = 0 <=> selectedPoints[k] = EmptyPair
            /\ idSelectedPoints[k] = InfinityIndex <=> selectedPoints[k] = InfinityPair
            /\ idSelectedPoints[k] \in {0, InfinityIndex} \cup FiniteIds
            /\ IsFinitePair(selectedPoints[k]) <=> idSelectedPoints[k] \in FiniteIds
            /\ \A i \in FiniteIds :
                   /\ idSelectedPoints[k] = i
                        => HasParameter(i) /\ SlotHolds(k, params[i])
                   /\ ( /\ HasParameter(i)
                        /\ SlotHolds(k, params[i])
                        /\ \A j \in FiniteIds \ {i} : HasParameter(j) => params[j] # params[i] )
                        => idSelectedPoints[k] = i

\* two points share the coordinate (0,1): each slot names one of them
C16_Witness ==
    /\ OneCompletedRun
    /\ RegistryDrawn
    /\ InfinityIndex = 3
    /\ params[1] = params[2]
    /\ idSelectedPoints = <<1, 2>>
    /\ SlotHolds(1, params[1])
    /\ SlotHolds(2, params[2])

----------------------------------------------------------------------------
(* C17: after any sequence of addDraggablePoint, addStaticPoint (succeeding *)
(* or failing, also by a failure of the rendering surface) and              *)
(* setBlankState calls, pointId is the number of points that exist on the   *)
(* surface, and every id in 1..pointId names an existing point.             *)

\* the ids under which a point exists on the surface
ExistingPoints == {j \in DOMAIN params : params[j] # Absent}

C17_PointIdCountsPoints ==
    /\ pointId = Cardinality(ExistingPoints)
    /\ \A id \in 1..pointId : id \in ExistingPoints

----------------------------------------------------------------------------
(* C18: after displayPoints, whatever setup calls came before it (other     *)
(* point creations, an earlier displayPoints, setBlankState), registry      *)
(* entry k is the point drawn under id k, so that x_{k}, y_{k} read entry   *)
(* k, and the last entry is the point drawn under id listCoordPoints.length,*)
(* the id that receives the label Infinity.                                 *)

C18_Step ==
    ( /\ last'.op = "displayPoints"
      /\ ~last'.threw
      /\ Len(listCoordPoints) >= 1 )
    => /\ \A k \in 1..Len(listCoordPoints) :
              k \in DOMAIN params' /\ params'[k] = listCoordPoints[k]
       \* the last entry, drawn last, has the labelled id
       /\ pointId' = Len(listCoordPoints)

C18_EntryKUnderIdK == [][C18_Step]_vars

----------------------------------------------------------------------------
(* C19: a view has one session state, two slots and one toggle: whatever    *)
(* addClickPoints calls and clicks came before, also addClickPoints called  *)
(* twice or called again after some matches, a click that matches exactly   *)
(* one registry point modifies at most one slot, and the slots alternate    *)
(* S0, S1, S0, ...: the first match goes to S0, and the match that follows  *)
(* a state in which S0 alone has been written goes to S1.  Stated for the   *)
(* sessions in which no step of a handler has raised.                       *)

ModifiedSlots ==
    {k \in 1..2 : selectedPoints'[k] # selectedPoints[k]
                    \/ idSelectedPoints'[k] # idSelectedPoints[k]}

C19_Step ==
    ( /\ last'.op = "click"
      /\ Len(last'.runs) >= 1
      \* no step has raised, before or on this click: every listener is still installed
      /\ \A k \in DOMAIN listeners : listeners[k].installed
      /\ \A j \in 1..Len(last'.runs) : last'.runs[j].thrownBy = "none"
      /\ RegistryDrawn
      /\ MatchCount(last'.args) = 1 )
    => /\ Cardinality(ModifiedSlots) <= 1
       /\ idSelectedPoints = <<0, 0>>
            => idSelectedPoints' = <<MatchedId(last'.args), 0>>
       /\ (idSelectedPoints[1] # 0 /\ idSelectedPoints[2] = 0)
            => idSelectedPoints' = <<idSelectedPoints[1], MatchedId(last'.args)>>

C19_OneSessionState == [][C19_Step]_vars

====
